---- MODULE Spec2Model ----
(***************************************************************************)
(* Model of src/native/native_add.c: the two exported functions            *)
(* native_add and heavy_computation, called by host threads.               *)
(*                                                                         *)
(* Every thread runs at most one call at a time.  A call of                *)
(* heavy_computation is a sequence of steps (one per loop iteration, then  *)
(* the delay test, the usleep, the return); its locals i and sum live in   *)
(* the activation of the call.                                             *)
(*                                                                         *)
(* int32_t arithmetic keeps its width.  `x + y` and `sum += i` are signed  *)
(* additions: when the mathematical result does not fit in int32_t the     *)
(* behaviour is undefined in C, and what happens is fixed by the build:    *)
(* a build with wrapping codegen (-fwrapv, or the plain add instruction)   *)
(* yields the two's-complement result, a build with trapping overflow      *)
(* (-ftrapv, -fsanitize=signed-integer-overflow) aborts the process.  The  *)
(* variable `build` holds that choice; it never changes during a run.      *)
(***************************************************************************)
EXTENDS Integers, FiniteSets, Sequences, TLC

\* ------------------------------------------------------------------ bounds

\* Threads of the host that call into the library (specification Spec).
NThreads == 2

\* Loop iterations of one call that the deep specification explores.
MaxExplored == 65700

\* ------------------------------------------------------- program constants

INT32_MAX == 2147483647
INT32_MIN == (-2147483647) - 1

\* `i % 1000 == 0`
XorPeriod == 1000

\* `usleep(2000 * 1000)`: microseconds
SleepUs == 2000 * 1000

Threads == 1 .. NThreads

\* The last iterations of heavy_computation(INT32_MAX) start here.
TailStart == INT32_MAX - 747

\* The value of sum on entering iteration i = TailStart in a wrapping build:
\* the loop of heavy_computation run for i = 0 .. TailStart - 1.
TailSum == -1034130762

\* The iterations the deep specification steps through: the first
\* MaxExplored of a call, and the last ones before INT32_MAX.
Explored(k) == k < MaxExplored \/ k >= TailStart

\* The builds of the source: what a signed overflow does.
Builds == {"wrap", "trap"}

\* ------------------------------------------------------------- arithmetic

\* Whether the mathematical a + b lies outside int32_t.
AddOverflows(a, b) ==
    \/ b > 0 /\ a > INT32_MAX - b
    \/ b < 0 /\ a < INT32_MIN - b

\* What a wrapping build computes for a + b.
AddWrapped(a, b) ==
    IF b > 0 /\ a > INT32_MAX - b
      THEN ((a - INT32_MAX) - 1) + ((b - INT32_MAX) - 1)
      ELSE IF b < 0 /\ a < INT32_MIN - b
        THEN ((a + INT32_MAX) + 1) + ((b + INT32_MAX) + 1)
        ELSE a + b

\* The int32_t addition `a + b` of a build that does not trap.
AddInt32(a, b) == AddWrapped(a, b)

RECURSIVE XorNat(_, _)
XorNat(a, b) ==
    IF a = 0 THEN b
    ELSE IF b = 0 THEN a
    ELSE (((a % 2) + (b % 2)) % 2) + 2 * XorNat(a \div 2, b \div 2)

\* The low 31 bits of the two's-complement representation of v.
Low31(v) == IF v >= 0 THEN v ELSE (v + INT32_MAX) + 1

\* `a ^ b` on int32_t.
XorInt32(a, b) ==
    LET l == XorNat(Low31(a), Low31(b))
    IN  IF (a < 0) = (b < 0) THEN l ELSE (l - INT32_MAX) - 1

\* `i % 1000 == 0` with the period 100 (a mistyped constant).
XorDueWrongPeriod(k) == k % 100 = 0

\* `i % 1000 == 0` for the loop counter (never negative inside the loop).
XorDue(k) == k % XorPeriod = 0

\* `i < iterations` written `i <= iterations`.
LoopGuardOffByOne(k, n) == k <= n

\* `i < iterations`
LoopGuard(k, n) == k < n

\* `iterations > 0` written `iterations >= 0`.
DelayGuardNonNegative(n) == n >= 0

\* `iterations > 0`
DelayGuard(n) == n > 0

\* usleep called with milliseconds.
SleepArgMillis == 2 * 1000

\* The argument of usleep.
SleepArg == SleepUs

\* `static int32_t sum = 0;`: initialised once, the old value is kept.
SumInitStatic(old) == old

\* `int32_t sum = 0;`: the value sum has when a call starts.
SumInit(old) == 0

\* A sum in static storage: one cell for all threads.
SumCellStatic(t) == 1

\* The storage of `sum`: automatic, one cell per activation (per thread).
SumCell(t) == t

\* ------------------------------------------------------------------ state

VARIABLES
    build,       \* what a signed overflow does in this build
    pc,          \* per thread: where its call stands
    fn,          \* per thread: the function called, "none" when idle
    x, y,        \* per thread: the arguments of native_add
    iterations,  \* per thread: the argument of heavy_computation
    i,           \* per thread: the loop counter
    sum,         \* per cell: the accumulator
    result,      \* per thread: the value returned
    done,        \* per thread: loop iterations executed in this call
    nxors,       \* per thread: how many times sum ^= i ran in this call
    lastxor,     \* per thread: the i of the latest sum ^= i, or -1
    nsleeps,     \* per thread: usleep calls of this call
    elapsed,     \* per thread: microseconds this call spent blocked
    remembered   \* an earlier call and its result, or <<>>

vars == <<build, pc, fn, x, y, iterations, i, sum, result, done, nxors,
          lastxor, nsleeps, elapsed, remembered>>

locals == <<x, y, iterations, i, sum, result, done, nxors, lastxor, nsleeps,
            elapsed>>

NoCall == <<>>

\* The call thread t is in, as a key.
CallKey(t) ==
    IF fn[t] = "native_add" THEN <<"native_add", x[t], y[t]>>
    ELSE <<"heavy_computation", iterations[t], 0>>

\* The process runs until an overflow trap aborts it.
Running == \A t \in Threads : pc[t] # "trapped"

Init ==
    /\ build \in Builds
    /\ pc = [t \in Threads |-> "idle"]
    /\ fn = [t \in Threads |-> "none"]
    /\ x = [t \in Threads |-> 0]
    /\ y = [t \in Threads |-> 0]
    /\ iterations = [t \in Threads |-> 0]
    /\ i = [t \in Threads |-> 0]
    /\ sum = [t \in Threads |-> 0]
    /\ result = [t \in Threads |-> 0]
    /\ done = [t \in Threads |-> 0]
    /\ nxors = [t \in Threads |-> 0]
    /\ lastxor = [t \in Threads |-> -1]
    /\ nsleeps = [t \in Threads |-> 0]
    /\ elapsed = [t \in Threads |-> 0]
    /\ remembered = NoCall

\* ------------------------------------------------------------- native_add

\* A thread calls native_add(a, b).
CallAdd(t, a, b) ==
    /\ Running
    /\ pc[t] = "idle"
    /\ pc' = [pc EXCEPT ![t] = "add"]
    /\ fn' = [fn EXCEPT ![t] = "native_add"]
    /\ x' = [x EXCEPT ![t] = a]
    /\ y' = [y EXCEPT ![t] = b]
    /\ UNCHANGED <<build, iterations, i, sum, result, done, nxors, lastxor, nsleeps,
                   elapsed, remembered>>

\* `return x + y;`
AddReturn(t) ==
    /\ Running
    /\ pc[t] = "add"
    /\ IF AddOverflows(x[t], y[t]) /\ build = "trap"
         THEN /\ pc' = [pc EXCEPT ![t] = "trapped"]
              /\ UNCHANGED result
         ELSE /\ pc' = [pc EXCEPT ![t] = "ret"]
              /\ result' = [result EXCEPT ![t] = AddInt32(x[t], y[t])]
    /\ UNCHANGED <<build, fn, x, y, iterations, i, sum, done, nxors, lastxor, nsleeps,
                   elapsed, remembered>>

\* ------------------------------------------------------ heavy_computation

\* A thread calls heavy_computation(n): `int32_t sum = 0;` and `int32_t i = 0`.
CallHeavy(t, n) ==
    /\ Running
    /\ pc[t] = "idle"
    /\ pc' = [pc EXCEPT ![t] = "loop"]
    /\ fn' = [fn EXCEPT ![t] = "heavy_computation"]
    /\ iterations' = [iterations EXCEPT ![t] = n]
    /\ sum' = [sum EXCEPT ![SumCell(t)] = SumInit(@)]
    /\ i' = [i EXCEPT ![t] = 0]
    /\ UNCHANGED <<build, x, y, result, done, nxors, lastxor, nsleeps,
                   elapsed, remembered>>

\* One iteration: `sum += i; if (i % 1000 == 0) sum ^= i;` and `i++`.
LoopBody(t) ==
    /\ Running
    /\ pc[t] = "loop"
    /\ LoopGuard(i[t], iterations[t])
    /\ Explored(i[t])
    /\ LET c == SumCell(t)
           s == sum[c]
           k == i[t]
       IN  IF AddOverflows(s, k) /\ build = "trap"
             THEN /\ pc' = [pc EXCEPT ![t] = "trapped"]
                  /\ UNCHANGED <<i, sum, done, nxors, lastxor>>
             ELSE LET s1 == AddInt32(s, k)
                      s2 == IF XorDue(k) THEN XorInt32(s1, k) ELSE s1
                  IN  /\ sum' = [sum EXCEPT ![c] = s2]
                      /\ nxors' = [nxors EXCEPT
                                     ![t] = IF XorDue(k) THEN @ + 1 ELSE @]
                      /\ lastxor' = [lastxor EXCEPT
                                       ![t] = IF XorDue(k) THEN k ELSE @]
                      /\ done' = [done EXCEPT ![t] = @ + 1]
                      /\ i' = [i EXCEPT ![t] = k + 1]
                      /\ UNCHANGED pc
    /\ UNCHANGED <<build, fn, x, y, iterations, result, nsleeps, elapsed,
                   remembered>>

\* The loop test fails: control reaches `if (iterations > 0)`.
LoopExit(t) ==
    /\ Running
    /\ pc[t] = "loop"
    /\ ~LoopGuard(i[t], iterations[t])
    /\ pc' = [pc EXCEPT ![t] = "delay"]
    /\ UNCHANGED <<build, fn, locals, remembered>>

\* `usleep(2000 * 1000)` is entered: the thread blocks.
SleepStart(t) ==
    /\ Running
    /\ pc[t] = "delay"
    /\ DelayGuard(iterations[t])
    /\ pc' = [pc EXCEPT ![t] = "sleeping"]
    /\ nsleeps' = [nsleeps EXCEPT ![t] = @ + 1]
    /\ UNCHANGED <<build, fn, x, y, iterations, i, sum, result, done, nxors, lastxor,
                   elapsed, remembered>>

\* usleep returns after the requested time.
SleepEnd(t) ==
    /\ Running
    /\ pc[t] = "sleeping"
    /\ pc' = [pc EXCEPT ![t] = "return"]
    /\ elapsed' = [elapsed EXCEPT ![t] = @ + SleepArg]
    /\ UNCHANGED <<build, fn, x, y, iterations, i, sum, result, done, nxors, lastxor,
                   nsleeps, remembered>>

\* `iterations > 0` is false: no usleep.
SkipSleep(t) ==
    /\ Running
    /\ pc[t] = "delay"
    /\ ~DelayGuard(iterations[t])
    /\ pc' = [pc EXCEPT ![t] = "return"]
    /\ UNCHANGED <<build, fn, locals, remembered>>

\* `return sum;`
HeavyReturn(t) ==
    /\ Running
    /\ pc[t] = "return"
    /\ pc' = [pc EXCEPT ![t] = "ret"]
    /\ result' = [result EXCEPT ![t] = sum[SumCell(t)]]
    /\ UNCHANGED <<build, fn, x, y, iterations, i, sum, done, nxors, lastxor, nsleeps,
                   elapsed, remembered>>

\* ----------------------------------------------------------------- caller

\* The activation is gone: the thread is idle again.  Static storage, were
\* there any, would outlive it; the cells of sum are left as they are.
Released(t) ==
    /\ pc' = [pc EXCEPT ![t] = "idle"]
    /\ fn' = [fn EXCEPT ![t] = "none"]
    /\ x' = [x EXCEPT ![t] = 0]
    /\ y' = [y EXCEPT ![t] = 0]
    /\ iterations' = [iterations EXCEPT ![t] = 0]
    /\ i' = [i EXCEPT ![t] = 0]
    /\ result' = [result EXCEPT ![t] = 0]
    /\ done' = [done EXCEPT ![t] = 0]
    /\ nxors' = [nxors EXCEPT ![t] = 0]
    /\ lastxor' = [lastxor EXCEPT ![t] = -1]
    /\ nsleeps' = [nsleeps EXCEPT ![t] = 0]
    /\ elapsed' = [elapsed EXCEPT ![t] = 0]
    /\ UNCHANGED <<build, sum>>

\* The caller takes the result.
Consume(t) ==
    /\ Running
    /\ pc[t] = "ret"
    /\ Released(t)
    /\ UNCHANGED remembered

\* The caller takes the result and keeps it to compare with later calls.
Remember(t) ==
    /\ Running
    /\ pc[t] = "ret"
    /\ remembered' = <<CallKey(t), result[t]>>
    /\ Released(t)

\* ---------------------------------------------------------- specifications

\* Arguments of the concurrent specification.
AddInputs ==
    {<<1, 2>>, <<INT32_MAX, 1>>, <<INT32_MIN, -1>>}

SmallIterations == {-5, 0, 1, 3}

\* Arguments of the deep specification: one thread, long loops.
DeepAddInputs ==
    {<<0, 0>>, <<1, 2>>, <<-7, 7>>, <<INT32_MAX, 1>>, <<INT32_MAX, INT32_MAX>>,
     <<INT32_MIN, -1>>, <<INT32_MIN, INT32_MIN>>, <<INT32_MIN, INT32_MAX>>,
     <<-1, INT32_MIN>>, <<INT32_MAX, 0>>}

DeepIterations == {INT32_MIN, -5, 0, 1, 2, 2000, 2001, 65600, INT32_MAX}

Next ==
    \E t \in Threads :
        \/ \E p \in AddInputs : CallAdd(t, p[1], p[2])
        \/ AddReturn(t)
        \/ \E n \in SmallIterations : CallHeavy(t, n)
        \/ LoopBody(t)
        \/ LoopExit(t)
        \/ SleepStart(t)
        \/ SleepEnd(t)
        \/ SkipSleep(t)
        \/ HeavyReturn(t)
        \/ Consume(t)
        \/ Remember(t)

Spec == Init /\ [][Next]_vars

NextDeep ==
    \/ \E p \in DeepAddInputs : CallAdd(1, p[1], p[2])
    \/ AddReturn(1)
    \/ \E n \in DeepIterations : CallHeavy(1, n)
    \/ LoopBody(1)
    \/ LoopExit(1)
    \/ SleepStart(1)
    \/ SleepEnd(1)
    \/ SkipSleep(1)
    \/ HeavyReturn(1)
    \/ Consume(1)

\* heavy_computation(INT32_MAX) of thread 1 on entering iteration TailStart,
\* in a wrapping build (a trapping build has aborted long before).
InitTail ==
    /\ build = "wrap"
    /\ pc = [t \in Threads |-> IF t = 1 THEN "loop" ELSE "idle"]
    /\ fn = [t \in Threads |-> IF t = 1 THEN "heavy_computation" ELSE "none"]
    /\ x = [t \in Threads |-> 0]
    /\ y = [t \in Threads |-> 0]
    /\ iterations = [t \in Threads |-> IF t = 1 THEN INT32_MAX ELSE 0]
    /\ i = [t \in Threads |-> IF t = 1 THEN TailStart ELSE 0]
    /\ sum = [t \in Threads |-> IF t = 1 THEN TailSum ELSE 0]
    /\ result = [t \in Threads |-> 0]
    /\ done = [t \in Threads |-> IF t = 1 THEN TailStart ELSE 0]
    /\ nxors = [t \in Threads |->
                  IF t = 1 THEN ((TailStart - 1) \div XorPeriod) + 1 ELSE 0]
    /\ lastxor = [t \in Threads |->
                    IF t = 1 THEN ((TailStart - 1) \div XorPeriod) * XorPeriod
                    ELSE -1]
    /\ nsleeps = [t \in Threads |-> 0]
    /\ elapsed = [t \in Threads |-> 0]
    /\ remembered = NoCall

SpecDeep == (Init \/ InitTail) /\ [][NextDeep]_vars

\* ------------------------------------------------------------- reference

\* (a + b) mod 2^32 read as a signed 32-bit value, computed on 16-bit halves.
Half == 2 ^ 16

WrapSum32(a, b) ==
    LET lo == (a % Half) + (b % Half)
        hi == (((a \div Half) % Half) + ((b \div Half) % Half)
               + (lo \div Half)) % Half
    IN  (IF hi >= Half \div 2 THEN hi - Half ELSE hi) * Half + (lo % Half)

\* One step of the reference accumulation.
RefStep(s, k) ==
    LET s1 == WrapSum32(s, k)
    IN  IF k % 1000 = 0 THEN XorInt32(s1, k) ELSE s1

\* The reference accumulation over i = lo .. hi - 1, starting from s: the
\* first half of the range, then (once that value is known) the second.
RECURSIVE RefRange(_, _, _)
RefRange(s, lo, hi) ==
    IF hi <= lo THEN s
    ELSE IF hi = lo + 1 THEN RefStep(s, lo)
    ELSE LET mid == lo + ((hi - lo) \div 2)
             first == RefRange(s, lo, mid)
         IN  IF first \in Int THEN RefRange(first, mid, hi) ELSE first

HeavyRef(n) == RefRange(0, 0, n)

Max(a, b) == IF a >= b THEN a ELSE b

InAdd(t) == fn[t] = "native_add"
InHeavy(t) == fn[t] = "heavy_computation"
Returned(t) == pc[t] = "ret"

TwoSecondsUs == 2 * 1000 * 1000

\* ----------------------------------------------------------------- claims

\* C1: native_add(x, y) returns (x + y) mod 2^32 read as a signed 32-bit
\* value for every pair of int32 arguments, and never traps.
C1_AddWrapsNeverTraps ==
    \A t \in Threads :
        InAdd(t) =>
            /\ pc[t] # "trapped"
            /\ Returned(t) => result[t] = WrapSum32(x[t], y[t])

\* C2: for every iterations > 0 heavy_computation returns the reference
\* accumulation (sum += i wrapping, then sum ^= i at the multiples of 1000),
\* and an overflow of the accumulator is never a fault.
C2_HeavyIsReferenceNeverFaults ==
    \A t \in Threads :
        (InHeavy(t) /\ iterations[t] > 0) =>
            /\ pc[t] # "trapped"
            /\ (Returned(t) /\ iterations[t] <= MaxExplored)
                   => result[t] = HeavyRef(iterations[t])

\* C3: for iterations <= 0 heavy_computation runs no loop iteration, never
\* sleeps and returns 0, for zero and for every negative argument alike.
C3_NonPositiveIsNoWork ==
    \A t \in Threads :
        (InHeavy(t) /\ iterations[t] <= 0) =>
            /\ done[t] = 0
            /\ i[t] = 0
            /\ nxors[t] = 0
            /\ nsleeps[t] = 0
            /\ elapsed[t] = 0
            /\ pc[t] \notin {"sleeping", "trapped"}
            /\ Returned(t) => result[t] = 0

C3_Witness ==
    \E t \in Threads :
        /\ InHeavy(t) /\ Returned(t)
        /\ iterations[t] = INT32_MIN
        /\ result[t] = 0 /\ nsleeps[t] = 0

\* C4: in a call with iterations > 0 the sleep happens exactly once, after
\* the last loop iteration and before the return, and lasts 2000 ms whatever
\* iterations is; the call does not return with the loop or sleep pending.
C4_SleepOnceAfterLoop ==
    \A t \in Threads :
        (InHeavy(t) /\ iterations[t] > 0) =>
            /\ pc[t] \in {"loop", "delay", "trapped"} =>
                   nsleeps[t] = 0 /\ elapsed[t] = 0
            /\ pc[t] = "sleeping" =>
                   /\ nsleeps[t] = 1 /\ elapsed[t] = 0
                   /\ i[t] = iterations[t] /\ done[t] = iterations[t]
            /\ pc[t] \in {"return", "ret"} =>
                   /\ nsleeps[t] = 1
                   /\ elapsed[t] = 2000 * 1000
                   /\ i[t] = iterations[t] /\ done[t] = iterations[t]

C4_Witness ==
    \E t \in Threads :
        /\ InHeavy(t) /\ Returned(t)
        /\ iterations[t] = 2001
        /\ nsleeps[t] = 1 /\ done[t] = 2001

\* C5: both functions are deterministic and keep no state between calls: a
\* call returns what any earlier call with the same arguments returned, and
\* what any other thread's call with the same arguments returns.
C5_Deterministic ==
    \A t \in Threads :
        Returned(t) =>
            /\ (remembered # NoCall /\ remembered[1] = CallKey(t))
                   => result[t] = remembered[2]
            /\ \A u \in Threads :
                   (Returned(u) /\ CallKey(u) = CallKey(t))
                       => result[u] = result[t]

C5_Witness ==
    \E t \in Threads :
        /\ InHeavy(t) /\ Returned(t) /\ iterations[t] = 3
        /\ remembered = <<CallKey(t), 3>>
        /\ result[t] = 3

\* C6: both functions are total: no call ends in an error state, every
\* returned value is an int32, and the loop of heavy_computation ends after
\* exactly max(iterations, 0) iterations.
C6_TotalNoErrorState ==
    \A t \in Threads :
        /\ pc[t] # "trapped"
        /\ Returned(t) => result[t] \in INT32_MIN .. INT32_MAX
        /\ (InHeavy(t) /\ pc[t] \in {"delay", "sleeping", "return", "ret"})
               => done[t] = Max(iterations[t], 0)

\* C7: calls are independent and reentrant: with several threads inside the
\* functions at once, under every interleaving, each call returns the value
\* it returns when run alone.
C7_ReentrantSameAsAlone ==
    \A t \in Threads :
        Returned(t) =>
            result[t] = IF InAdd(t) THEN WrapSum32(x[t], y[t])
                        ELSE HeavyRef(iterations[t])

C7_Witness ==
    /\ InHeavy(1) /\ Returned(1) /\ iterations[1] = 3 /\ result[1] = 3
    /\ InHeavy(2) /\ pc[2] = "loop" /\ iterations[2] = 3 /\ i[2] = 2

MultiplesBelow(k) == IF k <= 0 THEN 0 ELSE ((k - 1) \div 1000) + 1
LastMultipleBelow(k) == IF k <= 0 THEN -1 ELSE ((k - 1) \div 1000) * 1000

\* C9: sum ^= i runs in exactly the iterations whose i is a multiple of 1000
\* and in no other: at i = 0 and i = 1000 only for iterations = 2000, and
\* once, with 0, for iterations = 1, so that heavy_computation(1) = 0.
C9_XorAtMultiplesOnly ==
    /\ [](\A t \in Threads :
            InHeavy(t) =>
                /\ nxors[t] = MultiplesBelow(i[t])
                /\ lastxor[t] = LastMultipleBelow(i[t])
                /\ (Returned(t) /\ iterations[t] = 2000)
                       => nxors[t] = 2 /\ lastxor[t] = 1000
                /\ (Returned(t) /\ iterations[t] = 1)
                       => nxors[t] = 1 /\ lastxor[t] = 0 /\ result[t] = 0)
    /\ [][\A t \in Threads :
            (pc[t] = "loop" /\ i'[t] # i[t]) =>
                /\ (nxors'[t] = nxors[t] + 1) <=> (i[t] % 1000 = 0)
                /\ (nxors'[t] = nxors[t]) <=> (i[t] % 1000 # 0)]_vars

C9_Witness ==
    \E t \in Threads :
        /\ InHeavy(t) /\ Returned(t)
        /\ iterations[t] = 2000
        /\ nxors[t] = 2 /\ lastxor[t] = 1000

\* C10: in the loop 0 <= i <= max(iterations, 0) always, i grows by exactly
\* 1 per iteration, and i++ never leaves int32: with iterations = INT32_MAX
\* the counter stops at INT32_MAX.
C10_LoopCounter ==
    /\ [](\A t \in Threads :
            InHeavy(t) =>
                /\ 0 <= i[t]
                /\ i[t] <= Max(iterations[t], 0)
                /\ done[t] = i[t])
    /\ [][\A t \in Threads :
            (pc[t] = "loop" /\ i'[t] # i[t]) =>
                /\ i[t] < INT32_MAX
                /\ i'[t] = i[t] + 1]_vars

C10_Witness ==
    \E t \in Threads :
        /\ InHeavy(t) /\ pc[t] = "delay"
        /\ iterations[t] = INT32_MAX
        /\ i[t] = INT32_MAX

====
